---- MODULE Spec2Model ----
(***************************************************************************)
(* Model of the FemCare chat client.                                       *)
(*                                                                         *)
(*   OllamaChatInterface  (src/app/api/chat/check-ollama/route.ts 55-459)  *)
(*     the chat session: message list, input buffer, profile, the selected *)
(*     backend, the session error, localStorage persistence and the        *)
(*     Ollama connectivity probe.                                          *)
(*   GET                  (src/app/api/chat/check-ollama/route.ts 3-18)    *)
(*     the server side of the Ollama health probe.                         *)
(*   ApiStatus            (src/unnamed/part_001)                           *)
(*     the two-backend status badge.                                       *)
(*                                                                         *)
(* Spec        is the chat session (handlers of OllamaChatInterface).      *)
(* StorageSpec is the chat session on a localStorage that may throw.       *)
(* MonitorSpec is the connectivity side (probes of both components).       *)
(*                                                                         *)
(* Texts are sequences of one-character strings.  Instants are integers    *)
(* (milliseconds).  A React event handler together with the effects its    *)
(* state updates trigger (the save effect of lines 130-134) is one action. *)
(* The name box (editingName, tempUserName, lines 60-61) is read only by   *)
(* handleSaveUserName; its text is that action's parameter.                *)
(***************************************************************************)
EXTENDS Integers, Sequences, FiniteSets, TLC

VARIABLES
    mounted,          \* the component is mounted and its load effect has run
    userName,         \* useState "User"                          (line 57)
    userAvatar,       \* useState ""                              (line 58)
    aiAvatar,         \* useState ""                              (line 59)
    messages,         \* useState []                              (line 64)
    userInput,        \* useState ""                              (line 65)
    isLoading,        \* useState false                           (line 66)
    selectedModel,    \* useState 'ollama'                        (line 72)
    error,            \* useState null                            (line 169)
    localStorage,     \* the browser's storage, survives unmounting
    fetches,          \* POST /api/chat calls awaiting their response, by backend
    now,              \* the clock read by Date.now() and new Date()
    lastOp,           \* history: the handler the last step ran and how it ended
    storageFault,     \* history: the localStorage access that failed in the last step
    thrown,           \* history: the error the last step let escape to the runtime
    connectionStatus, \* useState 'checking'                      (line 68)
    monitorActive,    \* the connectivity effect is set up, interval not cleared
    probes,           \* checkOllamaStatus calls awaiting /api/ollama-status, in the
                      \* order they were made; one is "overtaken" once a call
                      \* made after it has resolved
    status,           \* ApiStatus: useState {ollama:false, openrouter:false}
    apiPc,            \* ApiStatus.checkStatus: position of the async function
    ollamaData,       \* ApiStatus.checkStatus: the local ollamaData
    lastProbe,        \* history: the outcome the last resolved probe was given
    sinceProbe,       \* seconds since checkOllamaStatus was last called by the effect
    sinceApiProbe     \* seconds since ApiStatus.checkStatus last issued a fetch

chatVars == <<mounted, userName, userAvatar, aiAvatar,
              messages, userInput, isLoading, selectedModel, error, localStorage,
              fetches, now, lastOp, storageFault, thrown>>

monitorVars == <<connectionStatus, monitorActive, probes, status, apiPc, ollamaData,
                 lastProbe, sinceProbe, sinceApiProbe>>

vars == <<mounted, userName, userAvatar, aiAvatar,
          messages, userInput, isLoading, selectedModel, error, localStorage,
          fetches, now, lastOp, storageFault, thrown,
          connectionStatus, monitorActive, probes, status, apiPc, ollamaData, lastProbe,
          sinceProbe, sinceApiProbe>>

-----------------------------------------------------------------------------
(* Bounds of the model *)

\* most messages the session holds before submit is no longer explored
MaxMessages == 3

\* most /api/chat calls in flight at once
MaxInflight == 2

\* clock ticks explored
MaxTicks == 1

\* the clock's first reading (ms), just below a second boundary
StartTime == 999

\* most /api/ollama-status calls in flight at once
MaxProbes == 2

\* setInterval(checkOllamaStatus, 30000): the period, in seconds
Interval == 30

-----------------------------------------------------------------------------
(* Values *)

Chars == {" ", "a"}

Whitespace == {" "}

\* texts typed into the message box: empty, whitespace only, padded text
InputTexts == {<<>>, <<" ">>, <<" ", "a">>}

\* texts typed into the name box: empty, whitespace only, plain
NameTexts == {<<>>, <<" ">>, <<"a">>}

ModelTypes == {"ollama", "openrouter"}

HttpStatuses == {200, 500}

Replies == {<<"r">>}

\* String.prototype.trim: strips leading and trailing whitespace
RECURSIVE TrimStart(_)
TrimStart(s) ==
    IF s # <<>> /\ Head(s) \in Whitespace THEN TrimStart(Tail(s)) ELSE s

RECURSIVE TrimEnd(_)
TrimEnd(s) ==
    IF s # <<>> /\ s[Len(s)] \in Whitespace THEN TrimEnd(SubSeq(s, 1, Len(s) - 1)) ELSE s

\* variant: nothing is stripped
TrimNothing(s) == s

Trim(s) == TrimEnd(TrimStart(s))

\* Number.prototype.toString: the decimal digits of a non-negative integer
DigitChars == <<"0", "1", "2", "3", "4", "5", "6", "7", "8", "9">>

RECURSIVE toString(_)
toString(n) ==
    IF n < 10 THEN <<DigitChars[n + 1]>>
    ELSE Append(toString(n \div 10), DigitChars[(n % 10) + 1])

\* variant: the milliseconds are dropped
toISOStringSeconds(t) == [sec |-> t \div 1000, ms |-> 0]

\* Date.prototype.toJSON / toISOString: "...:ss.sssZ", seconds and milliseconds
toISOString(t) == [sec |-> t \div 1000, ms |-> t % 1000]

\* new Date(isoString)
NewDate(iso) == (iso.sec * 1000) + iso.ms

WelcomeId == <<"welcome-message">>

WelcomeContent == <<"Hello! I'm your FemCare assistant powered by Ollama. ...">>

welcomeMessage(t) ==
    [id |-> WelcomeId, role |-> "assistant", content |-> WelcomeContent, timestamp |-> t]

\* the userMessage object of handleSubmit
userMessage(text, t) ==
    [id |-> toString(t), role |-> "user", content |-> text, timestamp |-> t]

\* JSON.stringify(messages): every Date becomes its ISO string
JSONstringify(msgs) ==
    [i \in 1..Len(msgs) |->
        [id |-> msgs[i].id, role |-> msgs[i].role, content |-> msgs[i].content,
         timestamp |-> toISOString(msgs[i].timestamp)]]

\* parsedMessages.map(msg => ({...msg, timestamp: new Date(msg.timestamp)}));
\* a stored timestamp is a non-empty string, so the "new Date()" arm is not taken
messagesWithTimestamp(parsed) ==
    [i \in 1..Len(parsed) |->
        [id |-> parsed[i].id, role |-> parsed[i].role, content |-> parsed[i].content,
         timestamp |-> NewDate(parsed[i].timestamp)]]

\* messages.map(m => ({role: m.role, content: m.content}))
projection(msgs) ==
    [i \in 1..Len(msgs) |-> [role |-> msgs[i].role, content |-> msgs[i].content]]

\* `https://api.dicebear.com/7.x/${style}/svg?seed=${seed}`
avatarUrl(style, seed) == [style |-> style, seed |-> seed]

\* Math.floor(Math.random() * 1000): its least and greatest result
Seeds == {0, 999}

\* localStorage
KeyUserName == "healthcare-chat-username"
KeyUserAvatar == "healthcare-user-avatar"
KeyAiAvatar == "healthcare-ai-avatar"
KeyHistory == "healthcare-chat-history"

StorageKeys == {KeyUserName, KeyUserAvatar, KeyAiAvatar, KeyHistory}

null == [type |-> "null"]

str(v) == [type |-> "string", value |-> v]

getItem(k) == localStorage[k]

setItem(store, k, v) == [store EXCEPT ![k] = str(v)]

\* the message of the Error thrown at line 205
httpErrorMessage(st) == [text |-> "HTTP error! status: ", status |-> st]

\* the message of the TypeError a failed fetch rejects with
networkErrorMessage == [text |-> "Failed to fetch"]

\* Response.ok
ok(st) == st >= 200 /\ st <= 299

\* variant: the request carries the new user message only
requestBodyLastOnly(msgs, modelType) ==
    [messages |-> projection(<<msgs[Len(msgs)]>>), model_type |-> modelType]

\* the body of a POST /api/chat request (lines 192-198)
requestBody(msgs, modelType) == [messages |-> projection(msgs), model_type |-> modelType]

noRequest == [messages |-> <<>>, model_type |-> "none"]

\* lastOp: the handler of the component that ran in the last step, whether it
\* went past its guard (for a response: whether the response was ok), the HTTP
\* status and the reply it was given, and the request it sent
opSent(name, accepted, st, reply, request) ==
    [op |-> name, accepted |-> accepted, status |-> st, reply |-> reply,
     request |-> request]

op(name, accepted, st, reply) == opSent(name, accepted, st, reply, noRequest)

\* the last step ran no handler: a bare state setter, or the clock
noOp == op("none", FALSE, 0, <<>>)

\* what the Ollama server answers the route's own health request with
Upstreams == {"ok", "notOk", "throws"}

\* GET (lines 3-18): the body the route answers with
GET(upstream) ==
    IF upstream = "ok" THEN [status |-> "online"]
    ELSE IF upstream = "notOk" THEN [status |-> "offline"]
    ELSE [status |-> "offline",
          message |-> "Ollama is not available in production environment"]

\* a body response.json() rejects on
unparseable == [unparseable |-> TRUE]

\* bodies a status endpoint may answer with: those of GET, JSON of another
\* shape, and text that is not JSON
Bodies == {GET(u) : u \in Upstreams} \cup {[status |-> "degraded"], unparseable}

\* what a fetch of a status endpoint ends in: a rejection (network failure),
\* or a response with its ok flag and body
ProbeOutcomes ==
    {[kind |-> "reject"]} \cup
    {[kind |-> "response", ok |-> o, body |-> b] : o \in BOOLEAN, b \in Bodies}

\* data.status of a parsed body
statusOf(data) == IF "status" \in DOMAIN data THEN data.status ELSE "undefined"

\* `await fetch(...)` followed by `await response.json()` throws
throws(outcome) == outcome.kind = "reject" \/ outcome.body = unparseable

noData == [none |-> TRUE]

noProbe == [kind |-> "none"]

-----------------------------------------------------------------------------
(* The chat session *)

ChatInit ==
    /\ mounted = FALSE
    /\ userName = <<"User">>
    /\ userAvatar = null   \* "", no URL before the load effect
    /\ aiAvatar = null     \* "", no URL before the load effect
    /\ messages = <<>>
    /\ userInput = <<>>
    /\ isLoading = FALSE
    /\ selectedModel = "ollama"
    /\ error = null
    /\ localStorage = [k \in StorageKeys |-> null]
    /\ fetches = <<>>
    /\ now = StartTime
    /\ lastOp = op("init", FALSE, 0, <<>>)
    /\ storageFault = "none"
    /\ thrown = null

MonitorInit ==
    /\ connectionStatus = "checking"
    /\ monitorActive = FALSE
    /\ probes = <<>>
    /\ status = [ollama |-> FALSE, openrouter |-> FALSE]
    /\ apiPc = "unmounted"
    /\ ollamaData = noData
    /\ lastProbe = noProbe
    /\ sinceProbe = 0
    /\ sinceApiProbe = 0

Init == ChatInit /\ MonitorInit

\* the clock advances
Tick ==
    /\ now < StartTime + MaxTicks
    /\ now' = now + 1
    /\ lastOp' = noOp
    /\ UNCHANGED <<mounted, userName, userAvatar, aiAvatar,
                   messages, userInput, isLoading, selectedModel, error, localStorage,
                   fetches>>
    /\ storageFault' = "none"
    /\ thrown' = null
    /\ UNCHANGED monitorVars

\* the save effect (lines 130-134), run after every change of messages
saveEffect(store, msgs) ==
    IF Len(msgs) > 0 THEN setItem(store, KeyHistory, JSONstringify(msgs)) ELSE store

\* `if (saved)`: a missing item is null, an empty string is falsy as well
truthy(item) == item # null /\ item.value # <<>>

\* variant: no welcome message when there is no history
loadMessagesUnseeded(savedMessages, t) ==
    IF savedMessages # null THEN messagesWithTimestamp(savedMessages.value) ELSE <<>>

\* the messages the load effect sets (lines 106-125)
loadMessages(savedMessages, t) ==
    IF savedMessages # null
    THEN messagesWithTimestamp(savedMessages.value)
    ELSE <<welcomeMessage(t)>>

\* Mounting a fresh instance of the component, on the first visit or on a
\* reload of the page: initial useState values, then the load effect (lines
\* 75-127) and the save effect it triggers.  A reload discards the previous
\* instance with its pending continuations; localStorage is all that is kept.
Mount ==
    /\ mounted' = TRUE
    /\ \E userSeed \in Seeds, aiSeed \in Seeds :
        LET savedUserName == getItem(KeyUserName)
            savedUserAvatar == getItem(KeyUserAvatar)
            savedAiAvatar == getItem(KeyAiAvatar)
            savedMessages == getItem(KeyHistory)
            newUserAvatar == avatarUrl("avataaars", userSeed)
            newAiAvatar == avatarUrl("bottts", aiSeed)
            s1 == IF truthy(savedUserAvatar) THEN localStorage
                  ELSE setItem(localStorage, KeyUserAvatar, newUserAvatar)
            s2 == IF truthy(savedAiAvatar) THEN s1
                  ELSE setItem(s1, KeyAiAvatar, newAiAvatar)
            loaded == loadMessages(savedMessages, now)
            s3 == IF savedMessages # null THEN s2
                  ELSE setItem(s2, KeyHistory, JSONstringify(<<welcomeMessage(now)>>))
        IN  /\ userName' = IF truthy(savedUserName) THEN savedUserName.value ELSE <<"User">>
            /\ userAvatar' = IF truthy(savedUserAvatar) THEN savedUserAvatar.value
                             ELSE newUserAvatar
            /\ aiAvatar' = IF truthy(savedAiAvatar) THEN savedAiAvatar.value ELSE newAiAvatar
            /\ messages' = loaded
            /\ localStorage' = saveEffect(s3, loaded)
    /\ userInput' = <<>>
    /\ isLoading' = FALSE
    /\ selectedModel' = "ollama"
    /\ error' = null
    /\ fetches' = <<>>
    /\ lastOp' = op("mount", localStorage[KeyHistory] # null, 0, <<>>)
    /\ UNCHANGED now
    /\ storageFault' = "none"
    /\ thrown' = null
    /\ UNCHANGED monitorVars

\* onChange of the Textarea (line 408)
SetUserInput(text) ==
    /\ mounted
    /\ userInput' = text
    /\ lastOp' = noOp
    /\ UNCHANGED <<mounted, userName, userAvatar, aiAvatar,
                   messages, isLoading, selectedModel, error, localStorage, fetches, now>>
    /\ storageFault' = "none"
    /\ thrown' = null
    /\ UNCHANGED monitorVars

\* handleSubmit up to its await (lines 171-199), reached from the form's
\* onSubmit and from Enter in the Textarea (lines 411-416)
HandleSubmit ==
    /\ mounted
    /\ IF Trim(userInput) = <<>>
       THEN /\ lastOp' = op("handleSubmit", FALSE, 0, <<>>)
            /\ UNCHANGED <<messages, fetches, localStorage>>
       ELSE /\ Len(messages) < MaxMessages
            /\ Len(fetches) < MaxInflight
            /\ LET msg == userMessage(userInput, now)
               IN  /\ messages' = Append(messages, msg)
                   /\ fetches' = Append(fetches, [model_type |-> selectedModel])
                   /\ localStorage' = saveEffect(localStorage, Append(messages, msg))
                   /\ lastOp' = opSent("handleSubmit", TRUE, 0, <<>>,
                                       requestBody(Append(messages, msg), selectedModel))
    /\ UNCHANGED <<mounted, userName, userAvatar, aiAvatar,
                   userInput, isLoading, selectedModel, error, now>>
    /\ storageFault' = "none"
    /\ thrown' = null
    /\ UNCHANGED monitorVars

RemoveAt(s, i) == SubSeq(s, 1, i - 1) \o SubSeq(s, i + 1, Len(s))

\* variant: a response that is not ok is taken like one that is
FetchRespondsUnchecked(i, st, reply) ==
    /\ mounted
    /\ i \in 1..Len(fetches)
    /\ fetches' = RemoveAt(fetches, i)
    /\ userInput' = <<>>
    /\ isLoading' = FALSE
    /\ lastOp' = op("fetchResponds", ok(st), st, reply)
    /\ UNCHANGED <<mounted, userName, userAvatar, aiAvatar,
                   messages, selectedModel, error, localStorage, now>>
    /\ storageFault' = "none"
    /\ thrown' = null
    /\ UNCHANGED monitorVars

\* handleSubmit after its await, the fetch having produced a response
\* (lines 201-215)
FetchResponds(i, st, reply) ==
    /\ mounted
    /\ i \in 1..Len(fetches)
    /\ fetches' = RemoveAt(fetches, i)
    /\ userInput' = <<>>
    /\ error' = IF ~ok(st) THEN httpErrorMessage(st) ELSE error
    /\ isLoading' = FALSE
    /\ lastOp' = op("fetchResponds", ok(st), st, reply)
    /\ UNCHANGED <<mounted, userName, userAvatar, aiAvatar,
                   messages, selectedModel, localStorage, now>>
    /\ storageFault' = "none"
    /\ thrown' = null
    /\ UNCHANGED monitorVars

OtherModel(m) == IF m = "ollama" THEN "openrouter" ELSE "ollama"

\* variant: a rejected call is sent again to the other backend
FetchRejectsFallback(i) ==
    /\ mounted
    /\ i \in 1..Len(fetches)
    /\ fetches' = [fetches EXCEPT ![i].model_type = OtherModel(fetches[i].model_type)]
    /\ error' = networkErrorMessage
    /\ isLoading' = FALSE
    /\ lastOp' = op("fetchRejects", FALSE, 0, <<>>)
    /\ UNCHANGED <<mounted, userName, userAvatar, aiAvatar,
                   messages, userInput, selectedModel, localStorage, now>>
    /\ storageFault' = "none"
    /\ thrown' = null
    /\ UNCHANGED monitorVars

\* variant: a rejected call takes the last message back
FetchRejectsRollsBack(i) ==
    /\ mounted
    /\ i \in 1..Len(fetches)
    /\ fetches' = RemoveAt(fetches, i)
    /\ messages' = SubSeq(messages, 1, Len(messages) - 1)
    /\ localStorage' = saveEffect(localStorage, SubSeq(messages, 1, Len(messages) - 1))
    /\ error' = networkErrorMessage
    /\ isLoading' = FALSE
    /\ lastOp' = op("fetchRejects", FALSE, 0, <<>>)
    /\ UNCHANGED <<mounted, userName, userAvatar, aiAvatar,
                   userInput, selectedModel, now>>
    /\ storageFault' = "none"
    /\ thrown' = null
    /\ UNCHANGED monitorVars

\* handleSubmit after its await, the fetch having rejected (lines 210-215)
FetchRejects(i) ==
    /\ mounted
    /\ i \in 1..Len(fetches)
    /\ fetches' = RemoveAt(fetches, i)
    /\ error' = networkErrorMessage
    /\ isLoading' = FALSE
    /\ lastOp' = op("fetchRejects", FALSE, 0, <<>>)
    /\ UNCHANGED <<mounted, userName, userAvatar, aiAvatar,
                   messages, userInput, selectedModel, localStorage, now>>
    /\ storageFault' = "none"
    /\ thrown' = null
    /\ UNCHANGED monitorVars

\* variant: the list is emptied, the welcome message only stored
HandleClearChatEmpties ==
    /\ mounted
    /\ messages' = <<>>
    /\ localStorage' = saveEffect(
            setItem(localStorage, KeyHistory, JSONstringify(<<welcomeMessage(now)>>)),
            <<>>)
    /\ lastOp' = op("handleClearChat", TRUE, 0, <<>>)
    /\ UNCHANGED <<mounted, userName, userAvatar, aiAvatar,
                   userInput, isLoading, selectedModel, error, fetches, now>>
    /\ storageFault' = "none"
    /\ thrown' = null
    /\ UNCHANGED monitorVars

\* variant: the clear also returns to the default backend
HandleClearChatResetsModel ==
    /\ mounted
    /\ messages' = <<welcomeMessage(now)>>
    /\ localStorage' = saveEffect(
            setItem(localStorage, KeyHistory, JSONstringify(<<welcomeMessage(now)>>)),
            <<welcomeMessage(now)>>)
    /\ selectedModel' = "ollama"
    /\ lastOp' = op("handleClearChat", TRUE, 0, <<>>)
    /\ UNCHANGED <<mounted, userName, userAvatar, aiAvatar,
                   userInput, isLoading, error, fetches, now>>
    /\ storageFault' = "none"
    /\ thrown' = null
    /\ UNCHANGED monitorVars

\* handleClearChat (lines 218-229) and the save effect
HandleClearChat ==
    /\ mounted
    /\ messages' = <<welcomeMessage(now)>>
    /\ localStorage' = saveEffect(
            setItem(localStorage, KeyHistory, JSONstringify(<<welcomeMessage(now)>>)),
            <<welcomeMessage(now)>>)
    /\ lastOp' = op("handleClearChat", TRUE, 0, <<>>)
    /\ UNCHANGED <<mounted, userName, userAvatar, aiAvatar,
                   userInput, isLoading, selectedModel, error, fetches, now>>
    /\ storageFault' = "none"
    /\ thrown' = null
    /\ UNCHANGED monitorVars

\* handleSaveUserName (lines 231-237); text is tempUserName, what the name box
\* (lines 298-302) holds when the button is clicked
HandleSaveUserName(text) ==
    /\ mounted
    /\ IF Trim(text) # <<>>
       THEN /\ userName' = text
            /\ localStorage' = setItem(localStorage, KeyUserName, text)
            /\ lastOp' = op("handleSaveUserName", TRUE, 0, <<>>)
       ELSE /\ UNCHANGED <<userName, localStorage>>
            /\ lastOp' = op("handleSaveUserName", FALSE, 0, <<>>)
    /\ UNCHANGED <<mounted, userAvatar, aiAvatar, messages, userInput, isLoading,
                   selectedModel, error, fetches, now>>
    /\ storageFault' = "none"
    /\ thrown' = null
    /\ UNCHANGED monitorVars

\* handleGenerateNewAvatars (lines 239-249)
HandleGenerateNewAvatars ==
    /\ mounted
    /\ \E userSeed \in Seeds, aiSeed \in Seeds :
        LET newUserAvatar == avatarUrl("avataaars", userSeed)
            newAiAvatar == avatarUrl("bottts", aiSeed)
        IN  /\ userAvatar' = newUserAvatar
            /\ aiAvatar' = newAiAvatar
            /\ localStorage' = setItem(setItem(localStorage, KeyUserAvatar, newUserAvatar),
                                       KeyAiAvatar, newAiAvatar)
    /\ lastOp' = op("handleGenerateNewAvatars", TRUE, 0, <<>>)
    /\ UNCHANGED <<mounted, userName, messages, userInput,
                   isLoading, selectedModel, error, fetches, now>>
    /\ storageFault' = "none"
    /\ thrown' = null
    /\ UNCHANGED monitorVars

\* onValueChange of the model Select (lines 429-432)
SetSelectedModel(value) ==
    /\ mounted
    /\ selectedModel' = value
    /\ lastOp' = noOp
    /\ UNCHANGED <<mounted, userName, userAvatar, aiAvatar,
                   messages, userInput, isLoading, error, localStorage, fetches, now>>
    /\ storageFault' = "none"
    /\ thrown' = null
    /\ UNCHANGED monitorVars

Next ==
    \/ Tick
    \/ Mount
    \/ \E text \in InputTexts : SetUserInput(text)
    \/ HandleSubmit
    \/ \E i \in 1..MaxInflight, st \in HttpStatuses, reply \in Replies :
          FetchResponds(i, st, reply)
    \/ \E i \in 1..MaxInflight : FetchRejects(i)
    \/ HandleClearChat
    \/ \E text \in NameTexts : HandleSaveUserName(text)
    \/ HandleGenerateNewAvatars
    \/ \E value \in ModelTypes : SetSelectedModel(value)

Spec == Init /\ [][Next]_vars

-----------------------------------------------------------------------------
(* The chat session on a localStorage whose accesses may throw *)

\* An effect throws.  No error boundary is rendered around the component, so
\* React unmounts the tree: the instance, its state and its pending
\* continuations are gone, and the error reaches the runtime.
EffectThrows(from) ==
    /\ mounted' = FALSE
    /\ userName' = <<"User">>
    /\ userAvatar' = null
    /\ aiAvatar' = null
    /\ messages' = <<>>
    /\ userInput' = <<>>
    /\ isLoading' = FALSE
    /\ selectedModel' = "ollama"
    /\ error' = null
    /\ fetches' = <<>>
    /\ thrown' = [in |-> "effect", from |-> from]

\* the load effect (lines 75-127) on a storage that cannot be read:
\* localStorage.getItem throws at line 76, outside any try
MountReadFails ==
    /\ EffectThrows("getItem")
    /\ storageFault' = "read"
    /\ lastOp' = op("mount", localStorage[KeyHistory] # null, 0, <<>>)
    /\ UNCHANGED <<localStorage, now>>
    /\ UNCHANGED monitorVars

\* handleSubmit up to its await (lines 171-199), then the save effect (lines
\* 130-134) whose setItem throws: the request has been sent
HandleSubmitSaveFails ==
    /\ mounted
    /\ Trim(userInput) # <<>>
    /\ Len(messages) < MaxMessages
    /\ Len(fetches) < MaxInflight
    /\ EffectThrows("setItem")
    /\ storageFault' = "write"
    /\ lastOp' = opSent("handleSubmit", TRUE, 0, <<>>,
                        requestBody(Append(messages, userMessage(userInput, now)),
                                    selectedModel))
    /\ UNCHANGED <<localStorage, now>>
    /\ UNCHANGED monitorVars

\* handleClearChat (lines 218-229) whose setItem throws at line 228, after
\* setMessages: the error leaves the event handler, the update is rendered
\* and the save effect writes in its turn, which fails as well or succeeds
HandleClearChatWriteFails ==
    /\ mounted
    /\ storageFault' = "write"
    /\ lastOp' = op("handleClearChat", TRUE, 0, <<>>)
    /\ \/ /\ EffectThrows("setItem")
          /\ UNCHANGED localStorage
       \/ /\ messages' = <<welcomeMessage(now)>>
          /\ localStorage' = saveEffect(localStorage, <<welcomeMessage(now)>>)
          /\ thrown' = [in |-> "handler", from |-> "setItem"]
          /\ UNCHANGED <<mounted, userName, userAvatar, aiAvatar,
                         userInput, isLoading, selectedModel, error, fetches>>
    /\ UNCHANGED now
    /\ UNCHANGED monitorVars

StorageNext ==
    \/ Next
    \/ MountReadFails
    \/ HandleSubmitSaveFails
    \/ HandleClearChatWriteFails

StorageSpec == Init /\ [][StorageNext]_vars

-----------------------------------------------------------------------------
(* Connectivity *)

\* the connectivity effect of OllamaChatInterface on mount (lines 144-161):
\* a fresh instance shows 'checking', calls checkOllamaStatus once and sets
\* the interval
MonitorMount ==
    /\ ~monitorActive
    /\ monitorActive' = TRUE
    /\ connectionStatus' = "checking"
    /\ probes' = <<"pending">>
    /\ lastProbe' = noProbe
    /\ sinceProbe' = 0
    /\ UNCHANGED <<status, apiPc, ollamaData, sinceApiProbe>>
    /\ UNCHANGED chatVars

\* the interval fires (line 159), Interval seconds after the effect ran or
\* the interval last fired: checkOllamaStatus is called again
IntervalFires ==
    /\ monitorActive
    /\ sinceProbe = Interval
    /\ Len(probes) < MaxProbes
    /\ probes' = Append(probes, "pending")
    /\ sinceProbe' = 0
    /\ UNCHANGED <<connectionStatus, monitorActive, status, apiPc, ollamaData, lastProbe,
                   sinceApiProbe>>
    /\ UNCHANGED chatVars

\* the calls made before the i-th have been overtaken by it
MarkOvertaken(s, i) == [j \in 1..Len(s) |-> IF j < i THEN "overtaken" ELSE s[j]]

\* checkOllamaStatus after its awaits (lines 147-153); the calls resolve in
\* any order
ProbeResolves(i, outcome) ==
    /\ monitorActive
    /\ i \in 1..Len(probes)
    /\ probes' = RemoveAt(MarkOvertaken(probes, i), i)
    /\ connectionStatus' =
          IF throws(outcome) THEN "disconnected"
          ELSE IF statusOf(outcome.body) = "online" THEN "connected" ELSE "disconnected"
    /\ lastProbe' = outcome
    /\ UNCHANGED <<monitorActive, status, apiPc, ollamaData, sinceProbe, sinceApiProbe>>
    /\ UNCHANGED chatVars

\* the effect's cleanup (line 160): the interval is cleared; what the
\* discarded instance still awaits can no longer be seen
MonitorUnmount ==
    /\ monitorActive
    /\ monitorActive' = FALSE
    /\ probes' = <<>>
    /\ sinceProbe' = 0
    /\ UNCHANGED <<connectionStatus, status, apiPc, ollamaData, lastProbe, sinceApiProbe>>
    /\ UNCHANGED chatVars

\* ApiStatus mounts (part_001 lines 4-33): both flags false, checkStatus
\* starts and awaits the Ollama status
ApiMount ==
    /\ apiPc \in {"unmounted", "done"}
    /\ status' = [ollama |-> FALSE, openrouter |-> FALSE]
    /\ ollamaData' = noData
    /\ apiPc' = "awaitOllama"
    /\ sinceApiProbe' = 0
    /\ UNCHANGED <<connectionStatus, monitorActive, probes, lastProbe, sinceProbe>>
    /\ UNCHANGED chatVars

\* checkStatus, lines 16-17: the Ollama status arrives, or the try is left
ApiOllamaResolves(outcome) ==
    /\ apiPc = "awaitOllama"
    /\ IF throws(outcome)
       THEN /\ apiPc' = "done"
            /\ UNCHANGED <<ollamaData, sinceApiProbe>>
       ELSE /\ apiPc' = "awaitOpenRouter"
            /\ ollamaData' = outcome.body
            /\ sinceApiProbe' = 0
    /\ UNCHANGED <<connectionStatus, monitorActive, probes, status, lastProbe, sinceProbe>>
    /\ UNCHANGED chatVars

\* checkStatus, lines 20-29: the OpenRouter status arrives and both flags are
\* set, or the try is left
ApiOpenRouterResolves(outcome) ==
    /\ apiPc = "awaitOpenRouter"
    /\ apiPc' = "done"
    /\ status' = IF throws(outcome) THEN status
                 ELSE [ollama |-> statusOf(ollamaData) = "online",
                       openrouter |-> statusOf(outcome.body) = "online"]
    /\ UNCHANGED <<connectionStatus, monitorActive, probes, ollamaData, lastProbe,
                   sinceProbe, sinceApiProbe>>
    /\ UNCHANGED chatVars

\* what ApiStatus renders for a flag (part_001 lines 37-42)
badge(flag) == IF flag THEN "Online" ELSE "Offline"

\* a second passes.  The interval's callback is due when sinceProbe reaches
\* Interval and runs before more time passes; checkStatus sets no timer, and
\* how long ago it last issued a fetch is followed up to Interval + 1.
MonitorTick ==
    /\ monitorActive \/ apiPc # "unmounted"
    /\ monitorActive => sinceProbe < Interval
    /\ sinceProbe' = IF monitorActive THEN sinceProbe + 1 ELSE sinceProbe
    /\ sinceApiProbe' = IF apiPc # "unmounted" /\ sinceApiProbe <= Interval
                        THEN sinceApiProbe + 1 ELSE sinceApiProbe
    /\ UNCHANGED <<connectionStatus, monitorActive, probes, status, apiPc, ollamaData,
                   lastProbe>>
    /\ UNCHANGED chatVars

MonitorNext ==
    \/ MonitorTick
    \/ MonitorMount
    \/ IntervalFires
    \/ \E i \in 1..MaxProbes, outcome \in ProbeOutcomes : ProbeResolves(i, outcome)
    \/ MonitorUnmount
    \/ ApiMount
    \/ \E outcome \in ProbeOutcomes : ApiOllamaResolves(outcome)
    \/ \E outcome \in ProbeOutcomes : ApiOpenRouterResolves(outcome)

MonitorSpec == Init /\ [][MonitorNext]_vars

-----------------------------------------------------------------------------
(* Properties of the chat session *)

Last(s) == s[Len(s)]

IsBlank(s) == \A i \in 1..Len(s) : s[i] \in Whitespace

AcceptedSubmit(o) == o.op = "handleSubmit" /\ o.accepted

SuccessfulResponse(o) == o.op = "fetchResponds" /\ o.accepted

FailedCall(o) == o.op = "fetchRejects" \/ (o.op = "fetchResponds" /\ ~o.accepted)

\* C1: once the backend call of a submission has succeeded, the message
\* sequence ends with the user message followed by one assistant message that
\* carries the backend's reply.
C1_ReplyAppendedOnSuccess ==
    SuccessfulResponse(lastOp) =>
        /\ Len(messages) >= 3
        /\ Last(messages).role = "assistant"
        /\ Last(messages).content = lastOp.reply
        /\ messages[Len(messages) - 1].role = "user"

\* C2: a submit issued while an earlier submission is still in flight changes
\* nothing: no user message is appended, no request is dispatched, and the
\* error, the input buffer and the persisted history stay as they are.
C2_SubmitWhileInFlightRejected ==
    [][(HandleSubmit /\ fetches # <<>>) =>
          UNCHANGED <<messages, fetches, error, userInput, localStorage>>]_vars

\* C3: a submit whose text is empty or only whitespace changes neither the
\* message sequence, the persisted history, the error, the submission state
\* nor the set of dispatched requests.
C3_BlankSubmitChangesNothing ==
    [][(lastOp'.op = "handleSubmit" /\ IsBlank(userInput)) =>
          UNCHANGED <<messages, localStorage, error, isLoading, fetches>>]_vars

\* C3 witness: a submit of a non-empty, whitespace-only text has been turned down
C3_Witness ==
    /\ lastOp.op = "handleSubmit"
    /\ ~lastOp.accepted
    /\ userInput # <<>>
    /\ IsBlank(userInput)

\* C4: when a backend call fails (rejection, or a response that is not ok) no
\* message is appended, the failure becomes the session error (naming the
\* HTTP status when there is one) whatever the error was before, and the
\* controller is idle.
C4_FailureRecordedNoAppend ==
    [][FailedCall(lastOp') =>
          /\ messages' = messages
          /\ isLoading' = FALSE
          /\ error' # null
          /\ error' = IF lastOp'.op = "fetchRejects" THEN networkErrorMessage
                      ELSE httpErrorMessage(lastOp'.status)]_vars

\* C4 witness: a call has ended in HTTP 500 after the user message was appended
C4_Witness ==
    /\ lastOp.op = "fetchResponds"
    /\ lastOp.status = 500
    /\ error = httpErrorMessage(500)
    /\ Len(messages) >= 2
    /\ Last(messages).role = "user"

\* C5: after the clear action the message sequence is exactly one message, the
\* assistant's welcome message, and the persisted history holds that message.
C5_ClearLeavesWelcomeOnly ==
    lastOp.op = "handleClearChat" =>
        /\ Len(messages) = 1
        /\ messages[1].role = "assistant"
        /\ messages[1].id = WelcomeId
        /\ getItem(KeyHistory) # null
        /\ messagesWithTimestamp(getItem(KeyHistory).value) = messages

\* C5 witness: the clear action has run on a session with a submission in flight
C5_Witness ==
    /\ lastOp.op = "handleClearChat"
    /\ fetches # <<>>

\* C6: a fresh activation that finds a stored history reproduces the message
\* sequence (ids, roles, contents, instants) and the profile (name and both
\* avatars) the previous activation had; one that finds no stored history
\* yields the single welcome message.
C6_ReloadRoundTrip ==
    [][lastOp'.op = "mount" =>
          IF getItem(KeyHistory) # null
          THEN /\ messages' = messages
               /\ userName' = userName
               /\ userAvatar' = userAvatar
               /\ aiAvatar' = aiAvatar
          ELSE /\ Len(messages') = 1
               /\ messages'[1].role = "assistant"
               /\ messages'[1].id = WelcomeId]_vars

\* C6 witness: a session with a user message of a later instant than the
\* welcome message and an edited name has been reloaded from storage
C6_Witness ==
    /\ lastOp.op = "mount"
    /\ lastOp.accepted
    /\ Len(messages) >= 2
    /\ messages[2].timestamp # messages[1].timestamp
    /\ userName # <<"User">>

\* C8: an accepted submit dispatches exactly one request, to the backend
\* selected at that moment; no other step dispatches or redirects a request,
\* and selecting another backend leaves the requests in flight as they are.
C8_OneRequestToSelectedBackend ==
    [][/\ AcceptedSubmit(lastOp') =>
            /\ Len(fetches') = Len(fetches) + 1
            /\ SubSeq(fetches', 1, Len(fetches)) = fetches
            /\ Last(fetches').model_type = selectedModel
            /\ lastOp'.request.model_type = selectedModel
       /\ ~AcceptedSubmit(lastOp') =>
            /\ Len(fetches') <= Len(fetches)
            /\ \A j \in 1..Len(fetches') : \E k \in 1..Len(fetches) : fetches'[j] = fetches[k]
       /\ (selectedModel' # selectedModel /\ lastOp'.op # "mount") => fetches' = fetches]_vars

\* C8 witness: a submit was accepted after the backend was switched while an
\* earlier submission, sent to the first backend, is still in flight
C8_Witness ==
    /\ AcceptedSubmit(lastOp)
    /\ Len(fetches) = 2
    /\ fetches[1].model_type = "ollama"
    /\ fetches[2].model_type = "openrouter"
    /\ selectedModel = "openrouter"

\* C9: the ids of the messages of the session are pairwise distinct.
C9_IdsUnique ==
    \A i, j \in 1..Len(messages) : i # j => messages[i].id # messages[j].id

\* C10: once the client is activated the message sequence is never empty.
C10_NeverEmptyAfterActivation ==
    mounted => Len(messages) >= 1

\* C10 witness: the sequence restored from a stored history of several
\* messages, after a clear and a submit
C10_Witness ==
    /\ mounted
    /\ lastOp.op = "mount"
    /\ lastOp.accepted
    /\ Len(messages) = MaxMessages

\* C11: whenever a backend call has completed successfully, no session error
\* is recorded: an error recorded by an earlier failure is cleared.
C11_ErrorClearedOnSuccess ==
    SuccessfulResponse(lastOp) => error = null

\* C12: after the clear action no session error is recorded, whatever error
\* was recorded before it.
C12_ClearClearsError ==
    lastOp.op = "handleClearChat" => error = null

\* C13: messages and profile change independently.  The clear action leaves
\* the selected backend, the display name and both avatars unchanged, in
\* memory and in storage; saving the display name, regenerating the avatars
\* and selecting a backend leave the message sequence and the persisted
\* history unchanged.
C13_MessagesAndProfileIndependent ==
    [][/\ lastOp'.op = "handleClearChat" =>
            /\ UNCHANGED <<selectedModel, userName, userAvatar, aiAvatar>>
            /\ \A k \in {KeyUserName, KeyUserAvatar, KeyAiAvatar} :
                  localStorage'[k] = localStorage[k]
       /\ (\/ lastOp'.op \in {"handleSaveUserName", "handleGenerateNewAvatars"}
           \/ (selectedModel' # selectedModel /\ lastOp'.op # "mount")) =>
            /\ messages' = messages
            /\ localStorage'[KeyHistory] = localStorage[KeyHistory]]_vars

\* C13 witness: the clear action has run on a conversation of several
\* messages whose user had saved a name and selected the second backend
C13_Witness ==
    /\ lastOp.op = "handleClearChat"
    /\ selectedModel = "openrouter"
    /\ userName # <<"User">>
    /\ getItem(KeyUserName) # null
    /\ userAvatar # null
    /\ Len(fetches) >= 1

\* C14: an accepted submit clears the input buffer as part of accepting it,
\* before the backend call resolves: right after the submit was accepted the
\* buffer is empty.
C14_InputClearedOnAccept ==
    AcceptedSubmit(lastOp) => userInput = <<>>

\* C15: the message list an accepted submit sends is the session's whole
\* message sequence at dispatch time with each message reduced to its role
\* and content, in order, and its last entry is the user message just
\* appended, carrying the submitted text.
C15_RequestIsFullProjection ==
    AcceptedSubmit(lastOp) =>
        LET sent == lastOp.request.messages
        IN  /\ Len(sent) = Len(messages)
            /\ \A i \in 1..Len(messages) :
                  /\ DOMAIN sent[i] = {"role", "content"}
                  /\ sent[i].role = messages[i].role
                  /\ sent[i].content = messages[i].content
            /\ Last(sent).role = "user"
            /\ Last(sent).content = userInput

\* C15 witness: a submit was accepted while an earlier submission is still
\* unresolved, so that the list sent holds the welcome message and both user
\* messages
C15_Witness ==
    /\ AcceptedSubmit(lastOp)
    /\ Len(fetches) = 2
    /\ Len(messages) = 3
    /\ Len(lastOp.request.messages) = 3
    /\ messages[2].role = "user"

\* C20: the message sequence is append-only between clears: every step that
\* is not the clear action leaves the sequence it found as a prefix of the
\* sequence it leaves, so no message is removed, reordered or modified.
C20_AppendOnlyBetweenClears ==
    [][lastOp'.op # "handleClearChat" =>
          /\ Len(messages') >= Len(messages)
          /\ \A i \in 1..Len(messages) : messages'[i] = messages[i]]_vars

\* C20 witness: the second of two overlapping submissions has failed, with
\* the welcome message and both user messages in the sequence
C20_Witness ==
    /\ lastOp.op = "fetchRejects"
    /\ Len(messages) = 3
    /\ messages[1].id = WelcomeId
    /\ messages[3].role = "user"
    /\ fetches = <<>>

\* C19: a storage failure is never a fault: after a step in which a storage
\* write failed (saving after a submit or a clear) or a storage read failed
\* (loading), no error has escaped to the runtime and the session in memory
\* is still a usable one: the component is mounted and its message sequence
\* is not empty.
C19_StorageFailureIsNoFault ==
    storageFault # "none" =>
        /\ thrown = null
        /\ mounted
        /\ Len(messages) >= 1

-----------------------------------------------------------------------------
(* Properties of the connectivity side *)

ShownFor(outcome) ==
    IF outcome.kind = "reject" THEN "disconnected"
    ELSE IF outcome.body = unparseable THEN "disconnected"
    ELSE IF outcome.body = [status |-> "online"] THEN "connected"
    ELSE "disconnected"

\* C7: a resolved probe sets its own backend's state (error: disconnected,
\* status online: connected, any other body: disconnected), and a backend's
\* state is what its own probe determined whatever the other backend's probe
\* ended in.
C7_ProbeSetsOwnBackendOnly ==
    /\ lastProbe # noProbe => connectionStatus = ShownFor(lastProbe)
    /\ (apiPc = "done" /\ ollamaData # noData) =>
            status.ollama = (statusOf(ollamaData) = "online")

\* C16: a health probe that was answered with a status outside 2xx, or with a
\* body that cannot be parsed, leaves its backend disconnected, whatever the
\* body of that answer says.
C16_NonOkProbeDisconnects ==
    (/\ lastProbe # noProbe
     /\ lastProbe.kind = "response"
     /\ (~lastProbe.ok \/ lastProbe.body = unparseable)) =>
        connectionStatus = "disconnected"

\* C17: the monitor's schedule.  From activation until its first probe has
\* resolved a backend is shown as checking; while the monitor is active no
\* more than Interval passes without a new probe of each backend; once it is
\* torn down no probe is outstanding or issued.
C17_MonitorSchedule ==
    /\ (monitorActive /\ lastProbe = noProbe) => connectionStatus = "checking"
    /\ monitorActive => sinceProbe <= Interval
    /\ ~monitorActive => probes = <<>>
    /\ apiPc = "awaitOllama" =>
          /\ badge(status.ollama) = "checking"
          /\ badge(status.openrouter) = "checking"
    /\ apiPc # "unmounted" => sinceApiProbe <= Interval

\* checkStatus has got as far as its fetch of /api/openrouter-status
OpenRouterProbeIssued ==
    \/ apiPc = "awaitOpenRouter"
    \/ (apiPc = "done" /\ ollamaData # noData)

\* C18: the probes of the two backends do not block one another: once the
\* status check has started, the OpenRouter probe has been issued whether the
\* Ollama probe is still pending, has failed or has resolved.
C18_ProbesDoNotBlock ==
    apiPc # "unmounted" => OpenRouterProbeIssued

\* the calls outstanding that a later call has overtaken
Overtaken(s) == Cardinality({j \in 1..Len(s) : s[j] = "overtaken"})

\* C21: the results of one backend's probes are applied in the order the
\* probes were issued: when an overtaken probe resolves within an activation
\* the exposed state stays what the later probe made it; and within an
\* activation the state, once it is not checking, never is checking again.
C21_ProbeResultsInIssueOrder ==
    [][(monitorActive /\ monitorActive') =>
          /\ Overtaken(probes') < Overtaken(probes) =>
                connectionStatus' = connectionStatus
          /\ connectionStatus # "checking" => connectionStatus' # "checking"]_vars

====
